---- MODULE Spec2Model ----
(***************************************************************************)
(* Model of launch/substitutions/python_expression.py: the PythonExpression *)
(* substitution (construction, parse from the frontend, perform).           *)
(*                                                                          *)
(* Python text is the sequence of its code points, so that split(',') and   *)
(* strip() are computed character by character.  Python values are records  *)
(* [kind, text, items].                                                     *)
(***************************************************************************)
EXTENDS Integers, Sequences, FiniteSets, TLC

VARIABLES
    phase,              \* "start" | "parsed" | "constructed" | "performing"
    data,               \* the argument groups handed to parse
    parsed,             \* what parse did: returned (cls, kwargs) or raised
    ctor_args,          \* the arguments handed to __init__
    ctor_raised,        \* the exception __init__ raised, or NoException
    self,               \* the instance: __expression and __python_modules
    pc,                 \* per perform call: its position in perform
    context,            \* per perform call: the LaunchContext it was given
    module_names,       \* per perform call: local module_names
    module_objects,     \* per perform call: local module_objects
    expression_locals,  \* per perform call: local expression_locals
    expression_text,    \* per perform call: the concatenated expression
    outcome             \* per perform call: returned string or exception

vars == <<phase, data, parsed, ctor_args, ctor_raised, self, pc, context,
          module_names, module_objects, expression_locals, expression_text,
          outcome>>

call_vars == <<pc, context, module_names, module_objects, expression_locals,
               expression_text, outcome>>

-----------------------------------------------------------------------------
(* Bounds *)

MaxData == 3        \* argument groups handed to parse
MaxPieces == 3      \* pieces making the text of the first module substitution
MaxGroup == 2       \* substitutions in the second argument group
MaxItems == 2       \* elements of a collection handed to __init__
MaxModules == 2     \* entries of python_modules of a performed instance
NCalls == 2         \* perform calls on the one instance

-----------------------------------------------------------------------------
(* Texts *)

T_math == <<109, 97, 116, 104>>                                 \* "math"
T_sys == <<115, 121, 115>>                                      \* "sys"
T_pi == <<112, 105>>                                            \* "pi"
T_pow == <<112, 111, 119>>                                      \* "pow"
T_abs == <<97, 98, 115>>                                        \* "abs"
T_argv == <<97, 114, 103, 118>>                                 \* "argv"
T_ospath == <<111, 115, 46, 112, 97, 116, 104>>                 \* "os.path"
T_posixpath == <<112, 111, 115, 105, 120, 112, 97, 116, 104>>   \* "posixpath"
T_nosuch == <<110, 111, 115, 117, 99, 104>>                     \* "nosuch"
T_relative == <<46, 120>>                                       \* ".x"
T_importlib == <<105, 109, 112, 111, 114, 116, 108, 105, 98>>   \* "importlib"
T_x == <<120>>                                                  \* "x"
T_m == <<109>>                                                  \* "m"
T_p == <<112>>                                                  \* "p"
T_i == <<105>>                                                  \* "i"
T_ow == <<111, 119>>                                            \* "ow"
T_v == <<118>>                                                  \* "v"
T_sep == <<115, 101, 112>>                                      \* "sep"
T_len == <<108, 101, 110>>                                      \* "len"
T_List == <<76, 105, 115, 116>>                                 \* "List"
T_empty == <<>>

\* the ',' that modules_str.split(',') splits on
Comma == 44
\* the '.' that starts a relative module name
Dot == 46

\* The characters str.strip() removes: those for which str.isspace() holds.
Whitespace ==
    {9, 10, 11, 12, 13, 28, 29, 30, 31, 32, 133, 160, 5760}
        \cup 8192..8202 \cup {8232, 8233, 8239, 8287, 12288}

\* str.split(sep): the maximal segments between occurrences of sep.
RECURSIVE split(_, _)
split(s, sep) ==
    IF \A i \in 1..Len(s) : s[i] # sep
    THEN <<s>>
    ELSE LET i == CHOOSE k \in 1..Len(s) :
                      s[k] = sep /\ \A j \in 1..(k - 1) : s[j] # sep
         IN  <<SubSeq(s, 1, i - 1)>> \o split(SubSeq(s, i + 1, Len(s)), sep)

\* str.strip(): drop leading and trailing whitespace.
strip(s) ==
    LET keep == {i \in 1..Len(s) : s[i] \notin Whitespace}
    IN  IF keep = {} THEN <<>>
        ELSE LET lo == CHOOSE i \in keep : \A j \in keep : i <= j
                 hi == CHOOSE i \in keep : \A j \in keep : j <= i
             IN  SubSeq(s, lo, hi)

\* ''.join(texts)
RECURSIVE join(_)
join(texts) ==
    IF Len(texts) = 0 THEN <<>> ELSE Head(texts) \o join(Tail(texts))

-----------------------------------------------------------------------------
(* Python values *)

Str(t) == [kind |-> "str", text |-> t, items |-> <<>>]
PyInt == [kind |-> "int", text |-> <<>>, items |-> <<>>]
List(xs) == [kind |-> "list", text |-> <<>>, items |-> xs]
Absent == [kind |-> "absent", text |-> <<>>, items |-> <<>>]
TextSubstitution(t) == [kind |-> "TextSubstitution", text |-> t, items |-> <<>>]
LaunchConfiguration(n) == [kind |-> "LaunchConfiguration", text |-> n, items |-> <<>>]

\* isinstance(v, Substitution)
IsSubstitution(v) == v.kind \in {"TextSubstitution", "LaunchConfiguration"}
\* isinstance(v, str)
IsStr(v) == v.kind = "str"
\* isinstance(v, collections.abc.Iterable)
IsIterable(v) == v.kind \in {"str", "list"}

NoException == "none"
None == "None"

Returned(v) == [status |-> "returned", exception |-> NoException, value |-> v]
Raised(e) == [status |-> "raised", exception |-> e, value |-> <<>>]

\* The launch contexts handed to perform, by name, and the launch
\* configurations each holds.
Contexts == {"ctxA", "ctxB"}
launch_configurations(ctx) ==
    IF ctx = "ctxA"
    THEN (T_x :> T_i) @@ (T_m :> T_math)
    ELSE (T_x :> T_ow) @@ (T_m :> T_sys)

\* Substitution.perform(context): a TextSubstitution returns its text whatever
\* the context is; a LaunchConfiguration reads context.launch_configurations.
perform_substitution(ctx, sub) ==
    IF sub.kind = "TextSubstitution" THEN Returned(sub.text)
    ELSE IF sub.kind = "LaunchConfiguration"
         THEN IF ctx = None THEN Raised("AttributeError")
              ELSE Returned(launch_configurations(ctx)[sub.text])
         ELSE Raised("AttributeError")

-----------------------------------------------------------------------------
(* Inputs *)

SeqsUpTo(S, n) == UNION {[1..k -> S] : k \in 0..n}

\* "math", "sys", ",", " " and "\r"
Pieces == {T_math, T_sys, <<Comma>>, <<32>>, <<13>>}

RECURSIVE TextsUpTo(_)
TextsUpTo(n) ==
    IF n = 0 THEN {<<>>}
    ELSE LET prev == TextsUpTo(n - 1)
         IN  prev \cup {t \o p : t \in prev, p \in Pieces}

Texts == TextsUpTo(MaxPieces)
TailTexts == {<<>>, T_sys, <<Comma>> \o T_sys}

ExprGroups ==
    {List(<<TextSubstitution(T_pi)>>),
     List(<<TextSubstitution(T_p), LaunchConfiguration(T_x)>>)}

FirstElems ==
    {TextSubstitution(t) : t \in Texts}
        \cup {LaunchConfiguration(T_m), Str(T_math)}
TailElems == {TextSubstitution(t) : t \in TailTexts}

ModuleGroups ==
    {List(<<>>)}
        \cup {List(<<f>> \o r) :
                 f \in FirstElems, r \in SeqsUpTo(TailElems, MaxGroup - 1)}
        \cup {Str(T_math), TextSubstitution(T_math), PyInt}

ExtraGroups == {List(<<>>)}

DataSet ==
    {<<>>} \cup {<<e>> : e \in ExprGroups}
        \cup {<<e, g>> \o x : e \in ExprGroups, g \in ModuleGroups,
                              x \in SeqsUpTo(ExtraGroups, MaxData - 2)}

CtorItems ==
    {Str(T_math), TextSubstitution(T_sys), LaunchConfiguration(T_m), PyInt}
CtorValues ==
    {Str(T_pi), TextSubstitution(T_pi), LaunchConfiguration(T_x), PyInt}
        \cup {List(xs) : xs \in SeqsUpTo(CtorItems, MaxItems)}

-----------------------------------------------------------------------------
(* Utilities of the launch package used by the class *)

ArgTypeError == "TypeError: argument type"
ArgCountError == "TypeError: eval substitution expects 1 or 2 arguments"
NotIterableError == "TypeError: object is not iterable"

\* ensure_argument_type(value, (str, Substitution, Iterable), ...)
ensure_argument_type(value) ==
    IF IsStr(value) \/ IsSubstitution(value) \/ IsIterable(value)
    THEN NoException
    ELSE ArgTypeError

\* normalize_to_list_of_substitutions(subs)
normalize_to_list_of_substitutions(subs) ==
    IF IsStr(subs) THEN Returned(<<TextSubstitution(subs.text)>>)
    ELSE IF IsSubstitution(subs) THEN Returned(<<subs>>)
    ELSE IF \E i \in 1..Len(subs.items) :
                ~IsStr(subs.items[i]) /\ ~IsSubstitution(subs.items[i])
         THEN Raised(ArgTypeError)
         ELSE Returned([i \in 1..Len(subs.items) |->
                           IF IsStr(subs.items[i])
                           THEN TextSubstitution(subs.items[i].text)
                           ELSE subs.items[i]])

-----------------------------------------------------------------------------
(* PythonExpression.__init__ *)

NoInstance == [constructed |-> FALSE, expression |-> <<>>, python_modules |-> <<>>]
Instance(e, m) == [constructed |-> TRUE, expression |-> e, python_modules |-> m]

DefaultPythonModules_empty == List(<<>>)

\* python_modules: SomeSubstitutionsType = ['math']
DefaultPythonModules == List(<<Str(T_math)>>)

PythonExpression_init(expression, python_modules_arg) ==
    LET python_modules ==
            IF python_modules_arg = Absent THEN DefaultPythonModules
            ELSE python_modules_arg
    IN  IF ensure_argument_type(expression) # NoException
        THEN Raised(ensure_argument_type(expression))
        ELSE IF ensure_argument_type(python_modules) # NoException
        THEN Raised(ensure_argument_type(python_modules))
        ELSE LET e == normalize_to_list_of_substitutions(expression)
                 m == normalize_to_list_of_substitutions(python_modules)
             IN  IF e.status = "raised" THEN Raised(e.exception)
                 ELSE IF m.status = "raised" THEN Raised(m.exception)
                 ELSE Returned(Instance(e.value, m.value))

-----------------------------------------------------------------------------
(* PythonExpression.parse *)

ArgCountBad_upto3(n) == n < 1 \/ n > 3

\* len(data) < 1 or len(data) > 2
ArgCountBad(n) == n < 1 \/ n > 2

\* [module.strip() for module in modules_str.split(',')]
ModuleNamesOf(modules_str) ==
    LET tokens == split(modules_str, Comma)
    IN  [i \in 1..Len(tokens) |-> strip(tokens[i])]

StrList(texts) == List([i \in 1..Len(texts) |-> Str(texts[i])])

Kwargs1(expression) == [k \in {"expression"} |-> expression]
Kwargs2(expression, python_modules) ==
    [k \in {"expression", "python_modules"} |->
        IF k = "expression" THEN expression ELSE python_modules]

parse_keepdefault(d) ==
    IF ArgCountBad(Len(d)) THEN Raised(ArgCountError)
    ELSE IF Len(d) = 2 /\ d[2].kind = "list" /\ Len(d[2].items) > 0
    THEN LET modules_str == perform_substitution(None, d[2].items[1])
         IN  IF modules_str.status = "raised" THEN Raised(modules_str.exception)
             ELSE Returned(Kwargs2(d[1], StrList(ModuleNamesOf(modules_str.value))))
    ELSE Returned(Kwargs1(d[1]))

parse(d) ==
    IF ArgCountBad(Len(d)) THEN Raised(ArgCountError)
    ELSE IF Len(d) = 2
    THEN IF IsStr(d[2]) \/ IsSubstitution(d[2]) THEN Raised("AssertionError")
         ELSE IF ~IsIterable(d[2]) THEN Raised(NotIterableError)
         ELSE LET modules == d[2].items
              IN  IF Len(modules) > 0
                  THEN LET modules_str == perform_substitution(None, modules[1])
                       IN  IF modules_str.status = "raised"
                           THEN Raised(modules_str.exception)
                           ELSE Returned(Kwargs2(d[1],
                                    StrList(ModuleNamesOf(modules_str.value))))
                  ELSE Returned(Kwargs2(d[1], List(<<>>)))
    ELSE Returned(Kwargs1(d[1]))

-----------------------------------------------------------------------------
(* Building an instance: parse, then the class called on kwargs; or __init__ *)

NotParsed == [status |-> "none", exception |-> NoException, value |-> <<>>]
NoArgs == [expression |-> Absent, python_modules |-> Absent]

Unresolved == [resolved |-> FALSE, text |-> <<>>]
NoOutcome == [status |-> "none", exception |-> NoException, value |-> <<>>]

NoCall == [c \in 1..NCalls |-> <<>>]

InitCalls ==
    /\ pc = [c \in 1..NCalls |-> "idle"]
    /\ context = [c \in 1..NCalls |-> None]
    /\ module_names = NoCall
    /\ module_objects = NoCall
    /\ expression_locals = NoCall
    /\ expression_text = [c \in 1..NCalls |-> Unresolved]
    /\ outcome = [c \in 1..NCalls |-> NoOutcome]

Init ==
    /\ phase = "start"
    /\ data = <<>>
    /\ parsed = NotParsed
    /\ ctor_args = NoArgs
    /\ ctor_raised = NoException
    /\ self = NoInstance
    /\ InitCalls

Parse(d) ==
    /\ phase = "start"
    /\ phase' = "parsed"
    /\ data' = d
    /\ parsed' = parse(d)
    /\ UNCHANGED <<ctor_args, ctor_raised, self>>
    /\ UNCHANGED call_vars

Construct(expression, python_modules) ==
    LET r == PythonExpression_init(expression, python_modules)
    IN  /\ phase' = "constructed"
        /\ ctor_args' = [expression |-> expression, python_modules |-> python_modules]
        /\ ctor_raised' = r.exception
        /\ self' = IF r.status = "returned" THEN r.value ELSE NoInstance
        /\ UNCHANGED <<data, parsed>>
        /\ UNCHANGED call_vars

\* the frontend calling the returned class with the returned kwargs
ConstructFromKwargs ==
    /\ phase = "parsed"
    /\ parsed.status = "returned"
    /\ LET kwargs == parsed.value
       IN  Construct(kwargs["expression"],
                     IF "python_modules" \in DOMAIN kwargs
                     THEN kwargs["python_modules"] ELSE Absent)

ConstructDirect ==
    /\ phase = "start"
    /\ \E e \in CtorValues, m \in CtorValues \cup {Absent} : Construct(e, m)

ParseAny == \E d \in DataSet : Parse(d)

Next == ParseAny \/ ConstructFromKwargs \/ ConstructDirect

Spec == Init /\ [][Next]_vars

-----------------------------------------------------------------------------
(* Properties of parse and of construction *)

IsConstGroup(g) ==
    /\ g.kind = "list"
    /\ \A i \in 1..Len(g.items) : g.items[i].kind = "TextSubstitution"

Trimmed(n) == n # <<>> /\ n[1] \notin Whitespace /\ n[Len(n)] \notin Whitespace

\* C1: parse raises the argument-count TypeError and returns no kwargs for 0
\* or more than 2 groups; for 1 or 2 groups (the second a collection of
\* constant substitutions) it returns kwargs whose 'expression' is data[0].
C1_ParseArgumentCount ==
    parsed.status # "none" =>
        /\ (Len(data) = 0 \/ Len(data) > 2) =>
               /\ parsed.status = "raised"
               /\ parsed.exception = ArgCountError
               /\ parsed.value = <<>>
        /\ (Len(data) \in {1, 2} /\ (Len(data) = 2 => IsConstGroup(data[2]))) =>
               /\ parsed.status = "returned"
               /\ parsed.value["expression"] = data[1]

C1_Witness ==
    /\ Len(data) = 3
    /\ parsed.status = "raised"
    /\ parsed.exception = ArgCountError

\* C2 (as claimed): every module name parse returns is non-empty and has no
\* leading or trailing whitespace.
C2_ModuleNamesNonEmptyTrimmed ==
    (parsed.status = "returned" /\ "python_modules" \in DOMAIN parsed.value) =>
        LET names == parsed.value["python_modules"].items
        IN  \A i \in 1..Len(names) : Trimmed(names[i].text)

\* C3: with one group parse returns no 'python_modules' entry and construction
\* stores the ['math'] default; with an empty second group parse returns
\* 'python_modules' = [] and construction stores an empty module list.
C3_AbsentVersusEmpty ==
    /\ (parsed.status = "returned" /\ Len(data) = 1) =>
           /\ "python_modules" \notin DOMAIN parsed.value
           /\ phase = "constructed" =>
                  /\ self.constructed
                  /\ self.python_modules = <<TextSubstitution(T_math)>>
    /\ (parsed.status = "returned" /\ Len(data) = 2 /\ data[2] = List(<<>>)) =>
           /\ "python_modules" \in DOMAIN parsed.value
           /\ parsed.value["python_modules"] = List(<<>>)
           /\ phase = "constructed" =>
                  /\ self.constructed
                  /\ self.python_modules = <<>>

C3_Witness ==
    /\ phase = "constructed"
    /\ parsed.status = "returned"
    /\ Len(data) = 2
    /\ data[2] = List(<<>>)
    /\ self.constructed
    /\ self.python_modules = <<>>

\* C4 (as claimed): for a non-empty second group of constant substitutions the
\* module names are those of the text of all its elements, split on commas
\* and trimmed.
C4_WholeGroupResolved ==
    (/\ parsed.status = "returned"
     /\ Len(data) = 2
     /\ IsConstGroup(data[2])
     /\ Len(data[2].items) >= 1) =>
        LET texts == [i \in 1..Len(data[2].items) |-> data[2].items[i].text]
        IN  parsed.value["python_modules"] = StrList(ModuleNamesOf(join(texts)))

ValidArg(v) ==
    \/ IsStr(v)
    \/ IsSubstitution(v)
    \/ /\ v.kind = "list"
       /\ \A i \in 1..Len(v.items) : IsStr(v.items[i]) \/ IsSubstitution(v.items[i])

StoredAs(arg, stored) ==
    IF IsStr(arg) THEN stored = <<TextSubstitution(arg.text)>>
    ELSE IF IsSubstitution(arg) THEN stored = <<arg>>
    ELSE /\ Len(stored) = Len(arg.items)
         /\ \A i \in 1..Len(stored) :
                /\ IsSubstitution(stored[i])
                /\ IsSubstitution(arg.items[i]) => stored[i] = arg.items[i]
                /\ IsStr(arg.items[i]) => stored[i].text = arg.items[i].text

\* C8: construction succeeds exactly when each argument is a string, a
\* substitution or a collection of strings and substitutions, and otherwise
\* raises the argument-type error and creates no instance; on success both
\* arguments are stored in order as substitutions, an omitted python_modules
\* as the one constant substitution 'math'.
C8_ConstructionTypes ==
    phase = "constructed" =>
        LET e == ctor_args.expression
            m == ctor_args.python_modules
        IN  /\ self.constructed <=> (ValidArg(e) /\ (m = Absent \/ ValidArg(m)))
            /\ ~self.constructed => ctor_raised = ArgTypeError
            /\ self.constructed =>
                   /\ ctor_raised = NoException
                   /\ StoredAs(e, self.expression)
                   /\ m = Absent => self.python_modules = <<TextSubstitution(T_math)>>
                   /\ m # Absent => StoredAs(m, self.python_modules)

C8_Witness ==
    /\ phase = "constructed"
    /\ parsed.status = "none"
    /\ ctor_args.python_modules = Absent
    /\ self.constructed
    /\ self.python_modules = <<TextSubstitution(T_math)>>

-----------------------------------------------------------------------------
(* The interpreter: importable modules, namespaces, eval *)

T_sqrt == <<115, 113, 114, 116>>                                \* "sqrt"

\* Modules the running environment can import.  pi is a user module whose
\* name is also a name math exports; os.path is known as posixpath.
M_math == [name |-> T_math, exports |-> {T_pi, T_pow, T_sqrt}]
M_sys == [name |-> T_sys, exports |-> {T_argv}]
M_pi == [name |-> T_pi, exports |-> {T_v}]
M_posixpath == [name |-> T_posixpath, exports |-> {T_sep}]

ImportableNames == {T_math, T_sys, T_pi, T_ospath}

find_module(name) ==
    CASE name = T_math -> M_math
      [] name = T_sys -> M_sys
      [] name = T_pi -> M_pi
      [] name = T_ospath -> M_posixpath

\* importlib.import_module(name)
import_module(name) ==
    IF name = <<>> THEN Raised("ValueError")
    ELSE IF name[1] = Dot THEN Raised("TypeError")
    ELSE IF name \in ImportableNames THEN Returned(find_module(name))
    ELSE Raised("ModuleNotFoundError")

ModuleValue(m) == [kind |-> "module", module |-> m.name, name |-> <<>>]
AttrValue(m, n) == [kind |-> "attr", module |-> m.name, name |-> n]
BuiltinValue(n) == [kind |-> "builtin", module |-> <<>>, name |-> n]
GlobalValue(n) == [kind |-> "global", module |-> <<>>, name |-> n]

EmptyDict == [k \in {} |-> BuiltinValue(<<>>)]

\* vars(module)
vars_of(m) == [n \in m.exports |-> AttrValue(m, n)]

\* the names of the builtins module
Builtins == {T_abs, T_pow, T_len}

\* the names bound at module level in python_expression.py
ModuleGlobals == [n \in {T_importlib, T_List} |-> GlobalValue(n)]

\* eval(name, globals, locals) of an expression that is one name: looked up in
\* locals, then in globals, then in the builtins eval adds to globals.
eval_name(name, globals, locals) ==
    IF name \in DOMAIN locals THEN Returned(locals[name])
    ELSE IF name \in DOMAIN globals THEN Returned(globals[name])
    ELSE IF name \in Builtins THEN Returned(BuiltinValue(name))
    ELSE Raised("NameError")

\* str(value)
py_str(v) == [kind |-> "str", of |-> v]

-----------------------------------------------------------------------------
(* PythonExpression.perform *)

MergesExports_any(module) == TRUE

\* if module.__name__ == 'math'
MergesExports(module) == module.name = T_math

\* one iteration of `for module in module_objects`
bind_module(locals, module) ==
    LET merged == IF MergesExports(module)
                  THEN vars_of(module) @@ locals
                  ELSE locals
    IN  (module.name :> ModuleValue(module)) @@ merged

RECURSIVE build_namespace(_, _)
build_namespace(locals, modules) ==
    IF Len(modules) = 0 THEN locals
    ELSE build_namespace(bind_module(locals, Head(modules)), Tail(modules))

\* [context.perform_substitution(sub) for sub in subs]
resolve_all(ctx, subs) ==
    [i \in 1..Len(subs) |-> perform_substitution(ctx, subs[i]).value]

\* perform_substitutions(context, subs)
perform_substitutions(ctx, subs) == join(resolve_all(ctx, subs))

import_all_skipping(names) ==
    LET ok == SelectSeq(names, LAMBDA n : import_module(n).status = "returned")
    IN  Returned([i \in 1..Len(ok) |-> import_module(ok[i]).value])

\* [importlib.import_module(name) for name in module_names]
import_all(names) ==
    IF \E i \in 1..Len(names) : import_module(names[i]).status = "raised"
    THEN LET i == CHOOSE k \in 1..Len(names) :
                      /\ import_module(names[k]).status = "raised"
                      /\ \A j \in 1..(k - 1) : import_module(names[j]).status = "returned"
         IN  Raised(import_module(names[i]).exception)
    ELSE Returned([i \in 1..Len(names) |-> import_module(names[i]).value])

EvalGlobals_module == ModuleGlobals

\* the {} handed to eval as globals
EvalGlobals == EmptyDict

PerformResolveModules_consuming(c, ctx) ==
    /\ pc[c] = "idle"
    /\ self.constructed
    /\ context' = [context EXCEPT ![c] = ctx]
    /\ module_names' = [module_names EXCEPT ![c] = resolve_all(ctx, self.python_modules)]
    /\ pc' = [pc EXCEPT ![c] = "import"]
    /\ self' = [self EXCEPT !.python_modules = <<>>]
    /\ UNCHANGED <<module_objects, expression_locals, expression_text, outcome>>
    /\ UNCHANGED <<phase, data, parsed, ctor_args, ctor_raised>>

\* line 107
PerformResolveModules(c, ctx) ==
    /\ pc[c] = "idle"
    /\ self.constructed
    /\ context' = [context EXCEPT ![c] = ctx]
    /\ module_names' = [module_names EXCEPT ![c] = resolve_all(ctx, self.python_modules)]
    /\ pc' = [pc EXCEPT ![c] = "import"]
    /\ UNCHANGED <<module_objects, expression_locals, expression_text, outcome>>
    /\ UNCHANGED <<phase, data, parsed, ctor_args, ctor_raised, self>>

\* line 108
PerformImport(c) ==
    /\ pc[c] = "import"
    /\ LET r == import_all(module_names[c])
       IN  IF r.status = "raised"
           THEN /\ outcome' = [outcome EXCEPT ![c] = Raised(r.exception)]
                /\ pc' = [pc EXCEPT ![c] = "import_raised"]
                /\ UNCHANGED module_objects
           ELSE /\ module_objects' = [module_objects EXCEPT ![c] = r.value]
                /\ pc' = [pc EXCEPT ![c] = "bind"]
                /\ UNCHANGED outcome
    /\ UNCHANGED <<context, module_names, expression_locals, expression_text>>
    /\ UNCHANGED <<phase, data, parsed, ctor_args, ctor_raised, self>>

\* lines 109-117
PerformBind(c) ==
    /\ pc[c] = "bind"
    /\ expression_locals' =
           [expression_locals EXCEPT ![c] = build_namespace(EmptyDict, module_objects[c])]
    /\ pc' = [pc EXCEPT ![c] = "eval"]
    /\ UNCHANGED <<context, module_names, module_objects, expression_text, outcome>>
    /\ UNCHANGED <<phase, data, parsed, ctor_args, ctor_raised, self>>

\* line 118
PerformEval(c) ==
    /\ pc[c] = "eval"
    /\ LET text == perform_substitutions(context[c], self.expression)
           r == eval_name(text, EvalGlobals, expression_locals[c])
       IN  /\ expression_text' =
                  [expression_text EXCEPT ![c] = [resolved |-> TRUE, text |-> text]]
           /\ IF r.status = "raised"
              THEN /\ outcome' = [outcome EXCEPT ![c] = Raised(r.exception)]
                   /\ pc' = [pc EXCEPT ![c] = "eval_raised"]
              ELSE /\ outcome' = [outcome EXCEPT ![c] = Returned(py_str(r.value))]
                   /\ pc' = [pc EXCEPT ![c] = "done"]
    /\ UNCHANGED <<context, module_names, module_objects, expression_locals>>
    /\ UNCHANGED <<phase, data, parsed, ctor_args, ctor_raised, self>>

\* perform(context) run from start to end with nothing in between
perform_alone(inst, ctx) ==
    LET imported == import_all(resolve_all(ctx, inst.python_modules))
    IN  IF imported.status = "raised" THEN Raised(imported.exception)
        ELSE LET r == eval_name(perform_substitutions(ctx, inst.expression),
                                EvalGlobals,
                                build_namespace(EmptyDict, imported.value))
             IN  IF r.status = "raised" THEN Raised(r.exception)
                 ELSE Returned(py_str(r.value))

-----------------------------------------------------------------------------
(* perform calls on one constructed instance *)

PerformExpressions ==
    {Str(T_pi), Str(T_abs), Str(T_argv), Str(T_importlib), Str(T_math),
     List(<<Str(T_p), LaunchConfiguration(T_x)>>)}

ModuleItems ==
    {Str(T_math), Str(T_sys), Str(T_pi), Str(T_ospath), Str(T_nosuch),
     Str(T_empty), Str(T_relative), LaunchConfiguration(T_m)}

PerformModules ==
    {Absent} \cup {List(xs) : xs \in SeqsUpTo(ModuleItems, MaxModules)}

InitPerform ==
    /\ phase = "constructed"
    /\ data = <<>>
    /\ parsed = NotParsed
    /\ ctor_raised = NoException
    /\ \E e \in PerformExpressions, m \in PerformModules :
           LET r == PythonExpression_init(e, m)
           IN  /\ r.status = "returned"
               /\ ctor_args = [expression |-> e, python_modules |-> m]
               /\ self = r.value
    /\ InitCalls

ResolveModulesStep == \E c \in 1..NCalls, ctx \in Contexts : PerformResolveModules(c, ctx)
ImportStep == \E c \in 1..NCalls : PerformImport(c)
BindStep == \E c \in 1..NCalls : PerformBind(c)
EvalStep == \E c \in 1..NCalls : PerformEval(c)

NextPerform == ResolveModulesStep \/ ImportStep \/ BindStep \/ EvalStep

SpecPerform == InitPerform /\ [][NextPerform]_vars

-----------------------------------------------------------------------------
(* Properties of perform *)

NamespaceBuilt(c) == pc[c] \in {"eval", "done", "eval_raised"}
Finished(c) == pc[c] \in {"done", "eval_raised", "import_raised"}
Loadable(name) == name \in ImportableNames

\* C5 (as claimed): once the namespace is built, the canonical name of every
\* loaded module is bound to that module.
C5_ModuleNamesBoundToModules ==
    \A c \in 1..NCalls :
        NamespaceBuilt(c) =>
            \A i \in 1..Len(module_objects[c]) :
                LET m == module_objects[c][i]
                IN  /\ m.name \in DOMAIN expression_locals[c]
                    /\ expression_locals[c][m.name] = ModuleValue(m)

\* C6: the keys of the namespace are the canonical names of the loaded
\* modules, plus the names math exports exactly when math is loaded.
C6_OnlyMathMerged ==
    \A c \in 1..NCalls :
        NamespaceBuilt(c) =>
            LET loaded == {module_objects[c][i] : i \in 1..Len(module_objects[c])}
                names == {m.name : m \in loaded}
            IN  DOMAIN expression_locals[c] =
                    names \cup (IF M_math \in loaded THEN M_math.exports ELSE {})

C6_Witness ==
    \E c \in 1..NCalls :
        /\ NamespaceBuilt(c)
        /\ module_objects[c] = <<M_sys, M_math>>
        /\ T_argv \notin DOMAIN expression_locals[c]
        /\ T_sqrt \in DOMAIN expression_locals[c]

FailedAtImport(c) ==
    /\ pc[c] = "import_raised"
    /\ outcome[c].status = "raised"
    /\ outcome[c].value = <<>>
    /\ ~expression_text[c].resolved
    /\ expression_locals[c] = <<>>

FirstUnloadable(names) ==
    names[CHOOSE k \in 1..Len(names) :
              /\ ~Loadable(names[k])
              /\ \A j \in 1..(k - 1) : Loadable(names[j])]

\* C7 (as claimed): a call whose module list has a name that cannot be loaded
\* ends at the import step with ModuleNotFoundError, no string returned and
\* the expression neither resolved nor evaluated.
C7_ModuleNotFoundPropagated ==
    \A c \in 1..NCalls :
        (/\ pc[c] \notin {"idle", "import"}
         /\ \E i \in 1..Len(module_names[c]) : ~Loadable(module_names[c][i])) =>
            /\ FailedAtImport(c)
            /\ outcome[c].exception = "ModuleNotFoundError"

\* C7 (amended): such a call ends at the import step with the error the
\* loader raised for the first name it could not load (ModuleNotFoundError
\* for a non-empty absolute name, ValueError for the empty name, TypeError
\* for a relative name), no string returned and the expression neither
\* resolved nor evaluated.
C7_LoaderErrorPropagated ==
    \A c \in 1..NCalls :
        (/\ pc[c] \notin {"idle", "import"}
         /\ \E i \in 1..Len(module_names[c]) : ~Loadable(module_names[c][i])) =>
            /\ FailedAtImport(c)
            /\ LET n == FirstUnloadable(module_names[c])
               IN  outcome[c].exception =
                       IF n = <<>> THEN "ValueError"
                       ELSE IF n[1] = Dot THEN "TypeError"
                       ELSE "ModuleNotFoundError"

C7_Witness ==
    \E c \in 1..NCalls :
        /\ module_names[c] = <<T_math, T_nosuch>>
        /\ FailedAtImport(c)
        /\ outcome[c].exception = "ModuleNotFoundError"

\* C9: no step of any perform call changes the instance, and every finished
\* call has the outcome perform has when run alone with that call's context.
C9_PerformIndependent ==
    [][/\ self' = self
       /\ \A c \in 1..NCalls :
              Finished(c)' => outcome'[c] = perform_alone(self', context'[c])]_vars

C9_Witness ==
    \E c1, c2 \in 1..NCalls :
        /\ pc[c1] = "done"
        /\ pc[c2] = "eval_raised"
        /\ context[c1] # context[c2]
        /\ Len(self.python_modules) > 0

\* C10 (as claimed): the name a finished evaluation resolved is a key of the
\* constructed namespace.
C10_OnlyNamespaceNames ==
    \A c \in 1..NCalls :
        pc[c] = "done" => expression_text[c].text \in DOMAIN expression_locals[c]

\* C10 (amended): the names the expression can resolve are the keys of the
\* constructed namespace and, after them, the names of the builtins; any
\* other name, the names bound at module level in python_expression.py
\* included, raises NameError; two calls with equal namespaces and the same
\* expression text have the same outcome.
C10_NamespaceThenBuiltins ==
    \A c \in 1..NCalls :
        pc[c] \in {"done", "eval_raised"} =>
            LET name == expression_text[c].text
                ns == expression_locals[c]
            IN  /\ pc[c] = "done" <=> name \in DOMAIN ns \cup Builtins
                /\ name \in DOMAIN ns => outcome[c] = Returned(py_str(ns[name]))
                /\ (name \notin DOMAIN ns /\ name \in Builtins) =>
                       outcome[c] = Returned(py_str(BuiltinValue(name)))
                /\ pc[c] = "eval_raised" => outcome[c] = Raised("NameError")
                /\ \A d \in 1..NCalls :
                       (/\ pc[d] \in {"done", "eval_raised"}
                        /\ expression_locals[d] = ns
                        /\ expression_text[d].text = name) =>
                           outcome[d] = outcome[c]

C10_Witness ==
    \E c1, c2 \in 1..NCalls :
        /\ pc[c1] = "done"
        /\ expression_text[c1].text = T_abs
        /\ T_abs \notin DOMAIN expression_locals[c1]
        /\ pc[c2] = "done"
        /\ c1 # c2
        /\ expression_locals[c2] = expression_locals[c1]

====
